---- MODULE Spec2Model ----
(***************************************************************************)
(* create-aio-lib: the `create` command (src/src/index.js).                *)
(*                                                                         *)
(* run() checks the destination folder, then hands seven tasks to a        *)
(* sequential task runner (Listr).  A task is complete when the promise it *)
(* returns settles; filesystem calls a task issues without awaiting them   *)
(* stay in flight and complete later, in any order.                        *)
(*                                                                         *)
(* Strings are tuples of one-character strings, so that startsWith,        *)
(* toUpperCase, substring, template literals and String.replace are        *)
(* computed character by character.                                        *)
(***************************************************************************)
EXTENDS Integers, Sequences, FiniteSets, TLC

\* ------------------------------------------------------------------ bounds

\* Longest text file content of a template, counted in segments (a segment
\* is one of Segments below: a token, or a piece of plain text).
MaxSegs == 2

\* ------------------------------------------------------------ string helpers

Range(s) == { s[i] : i \in 1..Len(s) }

\* String.prototype.startsWith(p)
StartsWith(s, p) == Len(s) >= Len(p) /\ SubSeq(s, 1, Len(p)) = p

\* String.prototype.substring(n) / slice(n) for 0 <= n
Substring(s, n) == SubSeq(s, n + 1, Len(s))

\* True when p occurs in s at (1-based) position i
MatchAt(s, p, i) == i + Len(p) - 1 <= Len(s) /\ SubSeq(s, i, i + Len(p) - 1) = p

\* String.prototype.toUpperCase on one character (the letters the inputs use)
ToUpperCase(c) ==
  CASE c = "f" -> "F"
    [] c = "o" -> "O"
    [] c = "r" -> "R"
    [] c = "x" -> "X"
    [] OTHER -> c

\* ------------------------------------------------------------ file names

DOT_GIT        == <<".", "g", "i", "t">>
PARAMS_FILE    == <<"t", "e", "m", "p", "l", "a", "t", "e", ".", "p", "a", "r", "a", "m", "e", "t", "e", "r", "s", ".", "j", "s", "o", "n">>
PACKAGE_JSON   == <<"p", "a", "c", "k", "a", "g", "e", ".", "j", "s", "o", "n">>
TYPES_D_TS     == <<"t", "y", "p", "e", "s", ".", "d", ".", "t", "s">>
GITIGNORE_TMPL == <<"g", "i", "t", "i", "g", "n", "o", "r", "e", ".", "t", "e", "m", "p", "l", "a", "t", "e">>
NPMRC_TMPL     == <<"n", "p", "m", "r", "c", ".", "t", "e", "m", "p", "l", "a", "t", "e">>
GITIGNORE      == <<".", "g", "i", "t", "i", "g", "n", "o", "r", "e">>
NPMRC          == <<".", "n", "p", "m", "r", "c">>
A_TXT          == <<"a", ".", "t", "x", "t">>
B_TXT          == <<"b", ".", "t", "x", "t">>
GONE_TXT       == <<"n", "o", ".", "t", "x", "t">>

\* ------------------------------------------------------------ tokens

TOKEN_REPO     == <<"{", "{", "R", "E", "P", "O", "}", "}">>
TOKEN_LIB_NAME == <<"{", "{", "L", "I", "B", "_", "N", "A", "M", "E", "}", "}">>
TOKEN_CORE_API == <<"L", "i", "b", "N", "a", "m", "e", "C", "o", "r", "e", "A", "P", "I">>
UNKNOWN_TOKEN  == <<"U", "N", "K", "N", "O", "W", "N", "_", "T", "O", "K", "E", "N">>
TO_STRING      == <<"t", "o", "S", "t", "r", "i", "n", "g">>
CONSTRUCTOR    == <<"c", "o", "n", "s", "t", "r", "u", "c", "t", "o", "r">>

\* ------------------------------------------------------------ replaceText: pure parts

\* What `toFrom[from]` evaluates to.  toFrom is an object literal with three own
\* properties; a property name it does not own is looked up on Object.prototype,
\* so 'constructor' and 'toString' yield functions and any other name undefined.
Undefined     == [kind |-> "undefined", s |-> <<>>]
StringValue(s) == [kind |-> "string", s |-> s]
FunctionValue(name) == [kind |-> "function", s |-> name]

toFrom(from, libName, repoName) ==
  CASE from = TOKEN_REPO     -> StringValue(repoName)
    [] from = TOKEN_LIB_NAME -> StringValue(libName)
    [] from = TOKEN_CORE_API -> StringValue(libName)
    [] from = CONSTRUCTOR    -> FunctionValue(CONSTRUCTOR)
    [] from = TO_STRING      -> FunctionValue(TO_STRING)
    [] OTHER                 -> Undefined

\* JavaScript truthiness of such a value: `if (!to)` skips undefined and ''.
Truthy(to) ==
  CASE to.kind = "undefined" -> FALSE
    [] to.kind = "string"    -> to.s # <<>>
    [] OTHER                 -> TRUE

\* from.replace(/\{/g, '\\{').replace(/\}/g, '\\}')
RECURSIVE EscapeBraces(_)
EscapeBraces(from) ==
  IF from = <<>> THEN <<>>
  ELSE (IF Head(from) \in {"{", "}"} THEN <<"\\", Head(from)>> ELSE <<Head(from)>>)
       \o EscapeBraces(Tail(from))

\* new RegExp(source): the literal text the pattern matches.  An escaped
\* character matches itself; the sources that reach this point hold letters,
\* '_' and escaped braces only, none of which is pattern syntax.
RECURSIVE RegExpLiteral(_)
RegExpLiteral(source) ==
  IF source = <<>> THEN <<>>
  ELSE IF Head(source) = "\\" /\ Len(source) >= 2
       THEN <<source[2]>> \o RegExpLiteral(Tail(Tail(source)))
       ELSE <<Head(source)>> \o RegExpLiteral(Tail(source))

OBJECT_UNDEFINED == <<"[", "o", "b", "j", "e", "c", "t", " ", "U", "n", "d", "e", "f", "i", "n", "e", "d", "]">>

\* GetSubstitution: the replacement text for a match of length n at position i
\* of str, for a replacement string r read from index k ($$, $&, $`, $').
RECURSIVE GetSubstitution(_, _, _, _, _)
GetSubstitution(r, k, str, i, n) ==
  IF k > Len(r) THEN <<>>
  ELSE IF r[k] = "$" /\ k < Len(r) /\ r[k + 1] \in {"$", "&", "`", "'"}
       THEN (CASE r[k + 1] = "$" -> <<"$">>
               [] r[k + 1] = "&" -> SubSeq(str, i, i + n - 1)
               [] r[k + 1] = "`" -> SubSeq(str, 1, i - 1)
               [] r[k + 1] = "'" -> SubSeq(str, i + n, Len(str)))
            \o GetSubstitution(r, k + 2, str, i, n)
       ELSE <<r[k]>> \o GetSubstitution(r, k + 1, str, i, n)

\* What one match is replaced by: a string is expanded by GetSubstitution; a
\* function is called with (match, offset, string) and `this` undefined:
\* Object(match) converts back to the match, Object.prototype.toString gives
\* '[object Undefined]'.
Replacement(to, str, i, n) ==
  CASE to.kind = "string" -> GetSubstitution(to.s, 1, str, i, n)
    [] to.s = CONSTRUCTOR -> SubSeq(str, i, i + n - 1)
    [] OTHER              -> OBJECT_UNDEFINED

\* str.replace(new RegExp(source, 'g'), to): leftmost, non-overlapping matches
RECURSIVE ReplaceFrom(_, _, _, _)
ReplaceFrom(str, lit, to, i) ==
  IF i > Len(str) THEN <<>>
  ELSE IF lit # <<>> /\ MatchAt(str, lit, i)
       THEN Replacement(to, str, i, Len(lit)) \o ReplaceFrom(str, lit, to, i + Len(lit))
       ELSE <<str[i]>> \o ReplaceFrom(str, lit, to, i + 1)

ReplaceAll(str, source, to) == ReplaceFrom(str, RegExpLiteral(source), to, 1)

\* The parameter manifest is a JSON object: a sequence of [token, paths]
\* entries in key order, no token twice.

\* Array.prototype.includes
Includes(arr, x) == \E i \in 1..Len(arr) : arr[i] = x

\* pathItemSet: every path of every entry
PathItemSet(paramsJson) ==
  UNION { Range(paramsJson[i].paths) : i \in 1..Len(paramsJson) }

\* Lines 193-197: [...set, ...values] over the keys, as an array
RECURSIVE Spread(_)
Spread(paramsJson) ==
  IF paramsJson = <<>> THEN <<>>
  ELSE Head(paramsJson).paths \o Spread(Tail(paramsJson))

\* new Set(array), in the order forEach visits it: each value once, where it
\* first occurs
RECURSIVE NewSet(_)
NewSet(array) ==
  IF array = <<>> THEN <<>>
  ELSE LET front == NewSet(SubSeq(array, 1, Len(array) - 1))
           last  == array[Len(array)]
       IN  IF Includes(front, last) THEN front ELSE Append(front, last)

\* The paths pathItemSet.forEach calls the callback with
PathItems_Mut(paramsJson) == Spread(paramsJson)
PathItems(paramsJson) == NewSet(Spread(paramsJson))

\* tokens: the keys whose list includes pathItem, in key order
RECURSIVE TokensFor(_, _)
TokensFor(paramsJson, pathItem) ==
  IF paramsJson = <<>> THEN <<>>
  ELSE (IF Includes(Head(paramsJson).paths, pathItem)
        THEN <<Head(paramsJson).token>> ELSE <<>>)
       \o TokensFor(Tail(paramsJson), pathItem)

\* One step of tokens.forEach: the content after token `from`
ReplaceToken(fileContents, from, libName, repoName) ==
  LET to == toFrom(from, libName, repoName)
  IN  IF ~Truthy(to) THEN fileContents
      ELSE ReplaceAll(fileContents, EscapeBraces(from), to)

\* A loop that applies the last token first
RECURSIVE ReplaceTokens_Mut(_, _, _, _)
ReplaceTokens_Mut(fileContents, tokens, libName, repoName) ==
  IF tokens = <<>> THEN fileContents
  ELSE ReplaceToken(ReplaceTokens_Mut(fileContents, Tail(tokens), libName, repoName),
                    Head(tokens), libName, repoName)

\* tokens.forEach over the content read from the file: the callback has no
\* await, so each call runs to its end before the next one starts
RECURSIVE ReplaceTokens(_, _, _, _)
ReplaceTokens(fileContents, tokens, libName, repoName) ==
  IF tokens = <<>> THEN fileContents
  ELSE ReplaceTokens(ReplaceToken(fileContents, Head(tokens), libName, repoName),
                     Tail(tokens), libName, repoName)

\* The tokens console.error is called for
Skipped(tokens, libName, repoName) ==
  { tokens[i] : i \in { j \in 1..Len(tokens) : ~Truthy(toFrom(tokens[j], libName, repoName)) } }

\* ------------------------------------------------------------ updatePackageJson: pure parts

\* A JSON value of the package manifest: a string, or an object of strings
\* (a function from keys to strings).
JString(s) == [kind |-> "string", s |-> s, o |-> <<>>]
JObject(o) == [kind |-> "object", s |-> <<>>, o |-> o]

K_NAME       == <<"n", "a", "m", "e">>
K_REPOSITORY == <<"r", "e", "p", "o", "s", "i", "t", "o", "r", "y">>
K_HOMEPAGE   == <<"h", "o", "m", "e", "p", "a", "g", "e">>
K_BUGS       == <<"b", "u", "g", "s">>
K_VERSION    == <<"v", "e", "r", "s", "i", "o", "n">>
K_URL        == <<"u", "r", "l">>
K_EMAIL      == <<"e", "m", "a", "i", "l">>
K_MAIN       == <<"m", "a", "i", "n">>
K_X_Y        == <<"x", "_", "y">>
K_ID         == <<"_", "i", "d">>
K_FROM       == <<"_", "_", "f">>

GITHUB  == <<"h", "t", "t", "p", "s", ":", "/", "/", "g", "i", "t", "h", "u", "b", ".", "c", "o", "m", "/">>
ISSUES  == <<"/", "i", "s", "s", "u", "e", "s">>
VERSION == <<"0", ".", "0", ".", "1">>

\* json.bugs = json.bugs || {}
BugsOrEmpty(json) ==
  IF K_BUGS \in DOMAIN json
     /\ (json[K_BUGS].kind = "object" \/ json[K_BUGS].s # <<>>)
  THEN json[K_BUGS]
  ELSE JObject(<<>>)

\* `json.bugs.url = ...` is an assignment to a property of a primitive when
\* bugs is a string; class bodies are strict code, where that throws TypeError.
BugsUrlThrows(json) == BugsOrEmpty(json).kind # "object"

\* The five assignments of lines 148-155
ReplaceFields(json, repoName) ==
  (K_NAME       :> JString(<<"@">> \o repoName))
  @@ (K_REPOSITORY :> JString(GITHUB \o <<"@">> \o repoName))
  @@ (K_HOMEPAGE   :> JString(GITHUB \o <<"@">> \o repoName))
  @@ (K_BUGS       :> JObject((K_URL :> (GITHUB \o <<"@">> \o repoName \o ISSUES))
                              @@ BugsOrEmpty(json).o))
  @@ (K_VERSION    :> JString(VERSION))
  @@ json

\* Deleting the keys that hold a '_' anywhere
RemoveUnderscored_Mut(json) ==
  [key \in { k \in DOMAIN json : "_" \notin Range(k) } |-> json[key]]

\* Object.keys(json).filter(key => key.startsWith('_')).forEach(key => delete json[key])
RemoveUnderscored(json) ==
  [key \in { k \in DOMAIN json : ~StartsWith(k, <<"_">>) } |-> json[key]]

\* The object handed to writeJson
UpdatedJson(json, repoName) == RemoveUnderscored(ReplaceFields(json, repoName))

\* ------------------------------------------------------------ files and inputs

\* What a path of the destination folder holds
Text(t)  == [kind |-> "text", text |-> t, json |-> <<>>]
Json(j)  == [kind |-> "json", text |-> <<>>, json |-> j]
Dir      == [kind |-> "dir", text |-> <<>>, json |-> <<>>]

\* path.join(a, b)
Join(a, b) == a \o <<"/">> \o b

\* process.cwd(), the default of flags.outputDir
Cwd == <<"/", "w">>

\* __dirname of index.js, and the directory modules are looked up in
Dirname      == <<"/", "s">>
NODE_MODULES == <<"n", "o", "d", "e", "_", "m", "o", "d", "u", "l", "e", "s">>

Entry(token, paths) == [token |-> token, paths |-> paths]

\* Parameter manifests a template may ship.  ParamsExample is the manifest of
\* the repository's template in small: two tokens on one file, one token the
\* command does not know on another.
ParamsExample ==
  << Entry(TOKEN_LIB_NAME, <<A_TXT>>), Entry(TOKEN_REPO, <<A_TXT>>),
     Entry(UNKNOWN_TOKEN, <<B_TXT>>) >>
ParamsMissingPath ==
  << Entry(TOKEN_REPO, <<A_TXT, GONE_TXT>>) >>
ParamsMixed ==
  << Entry(UNKNOWN_TOKEN, <<A_TXT, A_TXT>>), Entry(TOKEN_CORE_API, <<A_TXT, B_TXT>>),
     Entry(TO_STRING, <<B_TXT>>) >>
\* A manifest that lists two of the files cleanup handles
ParamsScaffold ==
  << Entry(TOKEN_CORE_API, <<TYPES_D_TS>>), Entry(TOKEN_REPO, <<GITIGNORE_TMPL>>) >>

\* Package manifests a template may ship
PkgOldName == (K_NAME :> JString(<<"o", "l", "d">>))
PkgFull ==
  (K_NAME :> JString(<<"t">>)) @@ (K_VERSION :> JString(<<"9">>))
  @@ (K_REPOSITORY :> JString(<<"r">>)) @@ (K_HOMEPAGE :> JString(<<"h">>))
  @@ (K_BUGS :> JObject((K_URL :> <<"u">>) @@ (K_EMAIL :> <<"e">>)))
  @@ (K_MAIN :> JString(<<"m">>)) @@ (K_X_Y :> JString(<<"y">>))
  @@ (K_ID :> JString(<<"i">>)) @@ (K_FROM :> JString(<<"f">>))
PkgBugsString ==
  (K_BUGS :> JString(<<"u">>)) @@ (K_MAIN :> JString(<<"m">>))
PkgPrivateOnly ==
  (K_ID :> JString(<<"i">>)) @@ (K_MAIN :> JString(<<"m">>))

\* Pieces of text a template file is made of
Segments == { TOKEN_REPO, TOKEN_LIB_NAME, TOKEN_CORE_API, <<"x">> }

RECURSIVE Contents(_)
Contents(n) ==
  IF n = 0 THEN { <<>> }
  ELSE Contents(n - 1) \cup { c \o g : c \in Contents(n - 1), g \in Segments }

TextA == TOKEN_LIB_NAME \o <<"x">> \o TOKEN_REPO
TextB == UNKNOWN_TOKEN \o TOKEN_CORE_API \o TO_STRING

\* A template tree: two text files, and the optional files the stages look for
Optional(present, path, content) == IF present THEN (path :> content) ELSE <<>>

Tree(textA, params, pkg, scaffold) ==
  (A_TXT :> Text(textA)) @@ (B_TXT :> Text(TextB))
  @@ params @@ pkg
  @@ Optional(scaffold \in {"all", "conflict"}, TYPES_D_TS, Text(<<"d">> \o TOKEN_CORE_API))
  @@ Optional(scaffold \in {"all", "conflict"}, GITIGNORE_TMPL, Text(<<"g">> \o TOKEN_REPO))
  @@ Optional(scaffold = "all", NPMRC_TMPL, Text(<<"n">>))
  @@ Optional(scaffold = "conflict", GITIGNORE, Text(<<"i">>))

ParamsFiles ==
  { <<>>, (PARAMS_FILE :> Text(<<"{">>)) }
  \cup { (PARAMS_FILE :> Json(p)) : p \in {ParamsExample, ParamsMissingPath, ParamsMixed, ParamsScaffold} }

PkgFiles ==
  { <<>>, (PACKAGE_JSON :> Text(<<"{">>)) }
  \cup { (PACKAGE_JSON :> Json(j)) : j \in {PkgOldName, PkgFull, PkgBugsString, PkgPrivateOnly} }

\* Templates that differ in the files the stages depend on
StageTemplates ==
  { Tree(TextA, params, pkg, scaffold) :
      params \in ParamsFiles, pkg \in PkgFiles, scaffold \in {"none", "all", "conflict"} }

\* Templates that differ in the text to substitute
TextTemplates ==
  { Tree(textA, (PARAMS_FILE :> Json(p)), (PACKAGE_JSON :> Json(PkgFull)), "all") :
      textA \in Contents(MaxSegs), p \in {ParamsExample, ParamsMixed} }

\* What a destination folder left by an earlier run holds
Previous ==
  (A_TXT :> Text(<<"x">>)) @@ (PACKAGE_JSON :> Json(PkgOldName))
  @@ (GITIGNORE :> Text(<<"i">>)) @@ (DOT_GIT :> Dir)

LibNames  == { <<"f", "o", "o">> }
RepoNames == { <<"o", "/", "r">>, <<"@", "o", "/", "r">>, <<"@">>, <<"$", "&">> }

\* --outputDir: not given, an absolute path, a relative path
OutputDirs == { <<>>, <<"/", "o">>, <<"o", "u", "t">> }

\* Arguments that differ in their first characters
NameLibNames  == { <<"f", "o", "o">>, <<"R", "x">>, <<"x">>, TOKEN_REPO }
NameRepoNames == { <<"r">>, <<"@", "r">>, <<"@", "@", "r">> }

\* ------------------------------------------------------------ state

VARIABLES
  args,         \* what this.parse returns: libName, repoName, templateUrl, overwrite, outputDir
  template,     \* the tree the bundled template or the remote repository holds
  folderExists, \* whether templateFolder exists
  disk,         \* templateFolder: relative path -> what it holds
  pc,           \* the statement of run(), or the task the task runner is at
  ctx,          \* the context object handed to tasks.run
  packageJson,  \* what fse.readJson returned to updatePackageJson
  json,         \* updatePackageJson's local `json` when writeJson is called
  pending,      \* filesystem calls in flight whose promise nothing awaits
  started,      \* the titles of the tasks started, in order
  fsOps,        \* filesystem calls made: [op, path] -> how many times; path is
                \* relative to templateFolder, absolute for a file outside it
  errors,       \* the messages this.error was called with, in order
  unhandled,    \* rejected promises nothing handles
  diagnostics,  \* the tokens console.error was called for, with the file
  title,        \* whether 'Lib created at ...' is shown
  exited        \* whether the process has exited

vars == << args, template, folderExists, disk, pc, ctx, packageJson, json, pending, started,
           fsOps, errors, unhandled, diagnostics, title, exited >>

\* args.libName[0].toUpperCase() + args.libName.substring(1)
Capitalize(name) == <<ToUpperCase(name[1])>> \o Substring(name, 1)

\* if (repoName.startsWith('@')) repoName = repoName.substring(1)
StripAt_Mut(name) == name
StripAt(name) == IF StartsWith(name, <<"@">>) THEN Substring(name, 1) ELSE name

\* Line 27: flags.outputDir || process.cwd() (no --outputDir: the empty string)
OutputFolder == IF args.outputDir = <<>> THEN Cwd ELSE args.outputDir

\* path.join(outputFolder, args.libName)
TemplateFolder == Join(OutputFolder, args.libName)

\* Line 137: the file require(id) loads.  An id that starts with '/' is that
\* file; one that starts with '../' is taken from the directory of index.js;
\* any other id is a module name, looked up in the node_modules directories
\* above index.js.
Required(id) ==
  IF StartsWith(id, <<"/">>) THEN id
  ELSE IF StartsWith(id, <<".", ".", "/">>) THEN Join(Dirname, id)
  ELSE Join(Join(Dirname, NODE_MODULES), id)

Call(op, path) == [op |-> op, path |-> path]
InFlight(op, path, data) == [op |-> op, path |-> path, data |-> data]

Count(ops, c) == IF c \in DOMAIN ops THEN ops[c] ELSE 0
Record(ops, c) == (c :> (Count(ops, c) + 1)) @@ ops

RECURSIVE RecordAll(_, _)
RecordAll(ops, calls) ==
  IF calls = <<>> THEN ops ELSE RecordAll(Record(ops, Head(calls)), Tail(calls))

Message(what, path) == [what |-> what, path |-> path]

Without(f, path) == [q \in DOMAIN f \ {path} |-> f[q]]

Init ==
  /\ \/ /\ args \in [libName : LibNames, repoName : {<<"@", "o", "/", "r">>},
                     templateUrl : BOOLEAN, overwrite : BOOLEAN, outputDir : {<<>>}]
        /\ template \in StageTemplates
        /\ \/ folderExists = FALSE /\ disk = <<>>
           \/ folderExists = TRUE /\ disk \in {<<>>, Previous}
     \/ /\ args \in [libName : LibNames, repoName : RepoNames,
                     templateUrl : {FALSE}, overwrite : {FALSE}, outputDir : {<<>>}]
        /\ template \in TextTemplates
        /\ folderExists = FALSE /\ disk = <<>>
     \/ /\ args \in [libName : NameLibNames, repoName : NameRepoNames,
                     templateUrl : {FALSE}, overwrite : {FALSE}, outputDir : {<<>>}]
        /\ template = Tree(TextA, (PARAMS_FILE :> Json(ParamsExample)),
                           (PACKAGE_JSON :> Json(PkgFull)), "all")
        /\ folderExists = FALSE /\ disk = <<>>
     \/ /\ args \in [libName : LibNames, repoName : {<<"@", "o", "/", "r">>},
                     templateUrl : BOOLEAN, overwrite : BOOLEAN, outputDir : OutputDirs]
        /\ template = Tree(TextA, (PARAMS_FILE :> Json(ParamsExample)),
                           (PACKAGE_JSON :> Json(PkgFull)), "all")
        /\ \/ folderExists = FALSE /\ disk = <<>>
           \/ folderExists = TRUE /\ disk = Previous
  /\ pc = "run"
  /\ ctx = [libName |-> <<>>, repoName |-> <<>>, paramsJson |-> <<>>]
  /\ packageJson = <<>>
  /\ json = <<>>
  /\ pending = {}
  /\ started = <<>>
  /\ fsOps = <<>>
  /\ errors = <<>>
  /\ unhandled = {}
  /\ diagnostics = {}
  /\ title = FALSE
  /\ exited = FALSE

\* ------------------------------------------------------------ run()

\* Line 35: await fse.pathExists(templateFolder) && !flags.overwrite
DestinationRefused_Mut == folderExists /\ args.overwrite
DestinationRefused == folderExists /\ ~args.overwrite

\* Lines 21-37 and 89-97: the names, the destination check, tasks.run(ctx).
\* this.error throws, so run() rejects and the command exits with the message.
Run ==
  /\ pc = "run" /\ ~exited
  /\ ctx' = [libName |-> Capitalize(args.libName), repoName |-> StripAt(args.repoName),
             paramsJson |-> <<>>]
  /\ IF DestinationRefused
     THEN /\ errors' = Append(errors, Message("Destination exists", TemplateFolder))
          /\ pc' = "rejected"
          /\ exited' = TRUE
     ELSE /\ pc' = "acquire"
          /\ UNCHANGED << errors, exited >>
  /\ UNCHANGED << args, template, folderExists, disk, packageJson, json, pending, started, fsOps,
                  unhandled, diagnostics, title >>

\* The task after the one pc names
NextTask(task) ==
  CASE task = "acquire"           -> "removeDotGit"
    [] task = "removeDotGit"      -> "readParameters"
    [] task = "readParameters"    -> "updatePackageJson"
    [] task = "updatePackageJson" -> "replaceText"
    [] OTHER                      -> "cleanup"

\* A runner that goes on to the next task after a failed one
TaskFails_Mut(message) ==
  /\ errors' = Append(errors, message)
  /\ pc' = NextTask(pc)
  /\ UNCHANGED << exited, pending >>

\* Lines 98-100: a task's promise rejected.  The runner starts no further task
\* and rejects; the catch calls this.error, which throws inside the handler, so
\* the message surfaces as a rejection nothing handles: a warning, or the end of
\* the process, depending on the Node release.
TaskFails(message) ==
  /\ errors' = Append(errors, message)
  /\ pc' = "failed"
  /\ \E crash \in BOOLEAN :
       /\ exited' = crash
       /\ pending' = IF crash THEN {} ELSE pending

\* A promise nothing awaits rejected (same two outcomes)
Rejects(call, why) ==
  /\ unhandled' = unhandled \cup {Message(why, call.path)}
  /\ \E crash \in BOOLEAN :
       /\ exited' = crash
       /\ pending' = IF crash THEN {} ELSE pending \ {call}

\* Lines 46-50, 85-87: steps[0] is 'Copy template' unless a template URL is
\* given, which replaces it by cloneTemplateStep
FirstStep_Mut == "copy"
FirstStep == IF args.templateUrl THEN "clone" ELSE "copy"

\* Lines 109-115: the options of git.clone beside fs and url; dir is the
\* destination folder
cloneOptions == << "singleBranch: true", "depth: 1" >>
CloneCall == InFlight("clone", <<>>, cloneOptions)

\* Line 105: the options copyTemplate hands to fse.copy
CopyOptions_Mut(overwrite) == [overwrite |-> overwrite, errorOnExist |-> FALSE]
CopyOptions(overwrite) == [overwrite |-> overwrite, errorOnExist |-> ~overwrite]

\* fse.copy of a directory copies its entries one after the other, in the
\* order the directory lists them
FileOrder ==
  << GITIGNORE, A_TXT, B_TXT, GITIGNORE_TMPL, NPMRC_TMPL, PACKAGE_JSON, PARAMS_FILE, TYPES_D_TS >>
Listing(tree) == SelectSeq(FileOrder, LAMBDA q : q \in DOMAIN tree)

\* fse.copy on an entry whose destination exists: replaces it under overwrite,
\* throws under errorOnExist, and otherwise leaves the destination as it is.
\* The index of the first entry fse.copy throws on (Len + 1: none)
FirstExisting(items, dest, options) ==
  LET throws == { i \in 1..Len(items) :
                    items[i] \in DOMAIN dest /\ ~options.overwrite /\ options.errorOnExist }
  IN  IF throws = {} THEN Len(items) + 1
      ELSE CHOOSE i \in throws : \A j \in throws : i <= j

\* The destination once the first n entries have been handled
Copied(tree, items, n, dest, options) ==
  LET done == { items[i] : i \in 1..n }
  IN  [q \in DOMAIN dest \cup done |->
         IF q \in done /\ (q \notin DOMAIN dest \/ options.overwrite) THEN tree[q] ELSE dest[q]]

\* Lines 48-49, 103-106: fse.copy(from, toFolder, options), awaited.  The copy
\* ends at entry `at`: past the last one (done), at the first entry that exists
\* under errorOnExist, or earlier where the filesystem fails it.  What was copied
\* before a failure stays.
CopyTemplate ==
  /\ pc = "acquire" /\ ~exited /\ FirstStep = "copy"
  /\ started' = Append(started, "Copy template")
  /\ fsOps' = Record(fsOps, Call("copy", <<>>))
  /\ LET options  == CopyOptions(args.overwrite)
         items    == Listing(template)
         existing == FirstExisting(items, disk, options)
     IN  \E at \in 1..existing :
           /\ disk' = Copied(template, items, at - 1, disk, options)
           /\ folderExists' = (folderExists \/ at > 1)
           /\ IF at = Len(items) + 1
              THEN /\ pc' = "removeDotGit"
                   /\ UNCHANGED << errors, exited, pending >>
              ELSE TaskFails(Message(IF at = existing THEN "already exists" ELSE "copy failed",
                                     TemplateFolder))
  /\ UNCHANGED << args, template, ctx, packageJson, json, unhandled, diagnostics, title >>

\* Lines 39-44, 85-87, 108-119: the task calls cloneRepo and returns nothing,
\* so the task is complete while git.clone is still in flight.
CloneTemplateStep ==
  /\ pc = "acquire" /\ ~exited /\ FirstStep = "clone"
  /\ started' = Append(started, "Cloning template")
  /\ fsOps' = Record(fsOps, Call("clone", <<>>))
  /\ pending' = pending \cup {CloneCall}
  /\ pc' = "removeDotGit"
  /\ UNCHANGED << args, template, folderExists, disk, ctx, packageJson, json, errors, unhandled,
                  diagnostics, title, exited >>

\* git.clone settles: the repository's tree and its .git are in the folder, or
\* the clone failed (network, authentication, URL).
CloneSettles ==
  /\ ~exited /\ CloneCall \in pending
  /\ \E io \in BOOLEAN :
       IF io
       THEN /\ disk' = (DOT_GIT :> Dir) @@ template @@ disk
            /\ folderExists' = TRUE
            /\ pending' = pending \ {CloneCall}
            /\ UNCHANGED << unhandled, exited >>
       ELSE /\ Rejects(CloneCall, "clone failed")
            /\ UNCHANGED << disk, folderExists >>
  /\ UNCHANGED << args, template, pc, ctx, packageJson, json, started, fsOps, errors, diagnostics, title >>

\* Line 123: the path removed, relative to repoFolder
DotGitFolder_Mut == <<"g", "i", "t">>
DotGitFolder == DOT_GIT

\* Lines 52-53, 121-125: fse.remove(<folder>/.git), awaited.  Removing a path
\* that is not there succeeds; removing one that is there may fail (io).
RemoveDotGitFolder ==
  /\ pc = "removeDotGit" /\ ~exited
  /\ started' = Append(started, "Remove .git folder")
  /\ fsOps' = Record(fsOps, Call("remove", DotGitFolder))
  /\ \E io \in (IF DotGitFolder \in DOMAIN disk THEN BOOLEAN ELSE {TRUE}) :
       IF io
       THEN /\ disk' = Without(disk, DotGitFolder)
            /\ pc' = "readParameters"
            /\ UNCHANGED << errors, exited, pending >>
       ELSE /\ TaskFails(Message("remove failed", Join(TemplateFolder, DotGitFolder)))
            /\ UNCHANGED disk
  /\ UNCHANGED << args, template, folderExists, ctx, packageJson, json, unhandled, diagnostics, title >>

\* Lines 56-61, 127-138: pathExists, then require() of the file.  pathExists
\* takes a relative path from the working directory, require does not: when
\* templateFolder is relative, require looks for a module of that name, which
\* the node_modules directories of the command do not hold.
ReadParametersFile ==
  /\ pc = "readParameters" /\ ~exited
  /\ started' = Append(started, "Read parameters file")
  /\ IF PARAMS_FILE \notin DOMAIN disk
     THEN /\ TaskFails(Message("template.parameters.json does not exist in", TemplateFolder))
          /\ fsOps' = Record(fsOps, Call("pathExists", PARAMS_FILE))
          /\ UNCHANGED ctx
     ELSE LET paramsFile == Join(TemplateFolder, PARAMS_FILE)
          IN  IF Required(paramsFile) # paramsFile
              THEN /\ fsOps' = RecordAll(fsOps, << Call("pathExists", PARAMS_FILE),
                                                  Call("require", Required(paramsFile)) >>)
                   /\ TaskFails(Message("Cannot find module", paramsFile))
                   /\ UNCHANGED ctx
              ELSE /\ fsOps' = RecordAll(fsOps, << Call("pathExists", PARAMS_FILE),
                                                  Call("require", PARAMS_FILE) >>)
                   /\ IF disk[PARAMS_FILE].kind = "json"
                      THEN /\ ctx' = [ctx EXCEPT !.paramsJson = disk[PARAMS_FILE].json]
                           /\ pc' = "updatePackageJson"
                           /\ UNCHANGED << errors, exited, pending >>
                      ELSE /\ TaskFails(Message("Unexpected token", paramsFile))
                           /\ UNCHANGED ctx
  /\ UNCHANGED << args, template, folderExists, disk, packageJson, json, unhandled, diagnostics, title >>

\* Line 144: the error names the file looked for
PackageJsonError_Mut == Message("does not exist in", TemplateFolder)
PackageJsonError == Message("does not exist in", Join(TemplateFolder, PACKAGE_JSON))

\* Lines 64-67, 140-160: pathExists, readJson, the assignments and the deletes
UpdatePackageJson ==
  /\ pc = "updatePackageJson" /\ ~exited
  /\ started' = Append(started, "Update package.json")
  /\ IF PACKAGE_JSON \notin DOMAIN disk
     THEN /\ TaskFails(PackageJsonError)
          /\ fsOps' = Record(fsOps, Call("pathExists", PACKAGE_JSON))
          /\ UNCHANGED << packageJson, json >>
     ELSE /\ fsOps' = RecordAll(fsOps, << Call("pathExists", PACKAGE_JSON),
                                         Call("readJson", PACKAGE_JSON) >>)
          /\ IF disk[PACKAGE_JSON].kind # "json"
             THEN /\ TaskFails(Message("Unexpected token", Join(TemplateFolder, PACKAGE_JSON)))
                  /\ UNCHANGED << packageJson, json >>
             ELSE IF BugsUrlThrows(disk[PACKAGE_JSON].json)
             THEN /\ TaskFails(Message("Cannot create property 'url' on string",
                                       Join(TemplateFolder, PACKAGE_JSON)))
                  /\ UNCHANGED << packageJson, json >>
             ELSE /\ packageJson' = disk[PACKAGE_JSON].json
                  /\ json' = UpdatedJson(disk[PACKAGE_JSON].json, ctx.repoName)
                  /\ pc' = "writeJson"
                  /\ UNCHANGED << errors, exited, pending >>
  /\ UNCHANGED << args, template, folderExists, disk, ctx, unhandled, diagnostics, title >>

\* Line 162: fse.writeJson(packageJsonFile, json, { spaces: 2 }), awaited
WriteJson ==
  /\ pc = "writeJson" /\ ~exited
  /\ fsOps' = Record(fsOps, Call("writeJson", PACKAGE_JSON))
  /\ disk' = (PACKAGE_JSON :> Json(json)) @@ disk
  /\ pc' = "replaceText"
  /\ UNCHANGED << args, template, folderExists, ctx, packageJson, json, pending, started, errors,
                  unhandled, diagnostics, title, exited >>

\* Lines 69-72, 184-232: replaceText builds the path set and calls an async
\* callback for each path; each callback runs up to its `await fse.readFile`.
\* forEach drops the promises, so replaceText resolves with every read in flight.
ReplaceText ==
  /\ pc = "replaceText" /\ ~exited
  /\ started' = Append(started, "Replace text")
  /\ LET paths == PathItems(ctx.paramsJson)
     IN  /\ pending' = pending \cup { InFlight("readFile", paths[i], <<>>) : i \in 1..Len(paths) }
         /\ fsOps' = RecordAll(fsOps, [i \in 1..Len(paths) |-> Call("readFile", paths[i])])
  /\ pc' = "cleanup"
  /\ UNCHANGED << args, template, folderExists, disk, ctx, packageJson, json, errors, unhandled,
                  diagnostics, title, exited >>

\* Lines 210-230: readFile settles and the callback goes on: the tokens are
\* applied to the content read and writeFile is called (tokens is never empty
\* for a path of the set).  A failed read rejects the callback's promise.
ReadFileSettles(call) ==
  /\ ~exited /\ call \in pending /\ call.op = "readFile"
  /\ IF call.path \in DOMAIN disk /\ disk[call.path].kind = "text"
     THEN LET tokens == TokensFor(ctx.paramsJson, call.path)
              fileContents == ReplaceTokens(disk[call.path].text, tokens,
                                            ctx.libName, ctx.repoName)
          IN  /\ diagnostics' = diagnostics \cup
                   { [token |-> t, path |-> call.path] :
                       t \in Skipped(tokens, ctx.libName, ctx.repoName) }
              /\ pending' = (pending \ {call})
                            \cup {InFlight("writeFile", call.path, fileContents)}
              /\ fsOps' = Record(fsOps, Call("writeFile", call.path))
              /\ UNCHANGED << unhandled, exited >>
     ELSE /\ Rejects(call, "ENOENT readFile")
          /\ UNCHANGED << diagnostics, fsOps >>
  /\ UNCHANGED << args, template, folderExists, disk, pc, ctx, packageJson, json, started, errors, title >>

\* Line 229: writeFile settles
WriteFileSettles(call) ==
  /\ ~exited /\ call \in pending /\ call.op = "writeFile"
  /\ disk' = (call.path :> Text(call.data)) @@ disk
  /\ pending' = pending \ {call}
  /\ UNCHANGED << args, template, folderExists, pc, ctx, packageJson, json, started, fsOps, errors,
                  unhandled, diagnostics, title, exited >>

\* Lines 73-76, 165-182: cleanup calls fse.remove twice and fse.move twice and
\* awaits none of them.
filesToRemove == { TYPES_D_TS, PARAMS_FILE }
filesToRename == { <<GITIGNORE_TMPL, GITIGNORE>>, <<NPMRC_TMPL, NPMRC>> }

Cleanup ==
  /\ pc = "cleanup" /\ ~exited
  /\ started' = Append(started, "Cleanup")
  /\ pending' = pending \cup { InFlight("remove", q, <<>>) : q \in filesToRemove }
                        \cup { InFlight("move", r[1], r[2]) : r \in filesToRename }
  /\ fsOps' = RecordAll(fsOps, << Call("remove", TYPES_D_TS), Call("remove", PARAMS_FILE),
                                  Call("move", GITIGNORE_TMPL), Call("move", NPMRC_TMPL) >>)
  /\ pc' = "libLocation"
  /\ UNCHANGED << args, template, folderExists, disk, ctx, packageJson, json, errors, unhandled,
                  diagnostics, title, exited >>

\* fse.remove settles: the path is gone, whether or not it was there
RemoveSettles(call) ==
  /\ ~exited /\ call \in pending /\ call.op = "remove"
  /\ disk' = Without(disk, call.path)
  /\ pending' = pending \ {call}
  /\ UNCHANGED << args, template, folderExists, pc, ctx, packageJson, json, started, fsOps, errors,
                  unhandled, diagnostics, title, exited >>

\* fse.move(src, dest) settles.  overwrite defaults to false: an existing
\* destination, or a missing source, rejects.
MoveSettles(call) ==
  /\ ~exited /\ call \in pending /\ call.op = "move"
  /\ IF call.data \in DOMAIN disk
     THEN Rejects(call, "dest already exists") /\ UNCHANGED disk
     ELSE IF call.path \notin DOMAIN disk
     THEN Rejects(call, "ENOENT move") /\ UNCHANGED disk
     ELSE /\ disk' = (call.data :> disk[call.path]) @@ Without(disk, call.path)
          /\ pending' = pending \ {call}
          /\ UNCHANGED << unhandled, exited >>
  /\ UNCHANGED << args, template, folderExists, pc, ctx, packageJson, json, started, fsOps, errors,
                  diagnostics, title >>

\* Lines 77-82: the last task shows where the library is; the runner resolves
LibLocation ==
  /\ pc = "libLocation" /\ ~exited
  /\ started' = Append(started, "Lib Location")
  /\ title' = TRUE
  /\ pc' = "done"
  /\ UNCHANGED << args, template, folderExists, disk, ctx, packageJson, json, pending, fsOps, errors,
                  unhandled, diagnostics, exited >>

Next ==
  \/ Run
  \/ CopyTemplate
  \/ CloneTemplateStep
  \/ CloneSettles
  \/ RemoveDotGitFolder
  \/ ReadParametersFile
  \/ UpdatePackageJson
  \/ WriteJson
  \/ ReplaceText
  \/ \E call \in pending : ReadFileSettles(call)
  \/ \E call \in pending : WriteFileSettles(call)
  \/ Cleanup
  \/ \E call \in pending : RemoveSettles(call)
  \/ \E call \in pending : MoveSettles(call)
  \/ LibLocation

Spec == Init /\ [][Next]_vars

\* copyTemplate called with the folder in any state, as its tests call it: in
\* run() the folder is absent, or overwrite is set, by the time the copy starts
CopyInit ==
  /\ args \in [libName : LibNames, repoName : {<<"@", "o", "/", "r">>},
               templateUrl : {FALSE}, overwrite : BOOLEAN, outputDir : {<<>>}]
  /\ template \in StageTemplates
  /\ \/ folderExists = FALSE /\ disk = <<>>
     \/ folderExists = TRUE /\ disk \in {<<>>, Previous}
  /\ pc = "acquire"
  /\ ctx = [libName |-> Capitalize(args.libName), repoName |-> StripAt(args.repoName),
            paramsJson |-> <<>>]
  /\ packageJson = <<>>
  /\ json = <<>>
  /\ pending = {}
  /\ started = <<>>
  /\ fsOps = <<>>
  /\ errors = <<>>
  /\ unhandled = {}
  /\ diagnostics = {}
  /\ title = FALSE
  /\ exited = FALSE

CopySpec == CopyInit /\ [][CopyTemplate]_vars

\* ------------------------------------------------------------ properties

Started(task) == task \in Range(started)
Made(op, path) == Count(fsOps, Call(op, path)) > 0

\* C1: when the destination folder exists as run() starts and overwrite is
\* false, run() ends with the 'Destination exists' error and the process exits
\* with no task started and no clone, copy, remove, read, write or move made,
\* then or later.
C1_DestinationExistsRejected ==
  /\ [][(pc = "run" /\ folderExists /\ ~args.overwrite)
          => /\ pc' = "rejected"
             /\ exited'
             /\ errors' = << Message("Destination exists", TemplateFolder) >>]_vars
  /\ [](pc = "rejected"
          => /\ exited
             /\ started = <<>>
             /\ fsOps = <<>>
             /\ pending = {}
             /\ disk \in {<<>>, Previous})
  /\ [][pc = "rejected" => UNCHANGED vars]_vars

C1_Witness == pc = "rejected" /\ folderExists /\ ~args.overwrite /\ disk = Previous

\* C2: the tasks start in the order acquisition, history stripping, parameter
\* loading, manifest rewriting, token substitution, cleanup, and a task starts
\* only when no filesystem call of an earlier task is still in flight.
TaskOrder(url) ==
  << IF url THEN "Cloning template" ELSE "Copy template", "Remove .git folder",
     "Read parameters file", "Update package.json", "Replace text", "Cleanup",
     "Lib Location" >>

C2_StagesWaitForEarlierCalls ==
  /\ [](started = SubSeq(TaskOrder(args.templateUrl), 1, Len(started)))
  /\ [][started' # started => pending = {}]_vars

\* C3: once a stage has failed with a fatal error (a task rejected, the clone
\* failed, a substitution target could not be read) no further task starts,
\* and when the runner is through and nothing is in flight this.error was
\* called exactly once.
FatalFailure ==
  \/ errors # <<>>
  \/ \E u \in unhandled : u.what \in {"clone failed", "ENOENT readFile"}

C3_FailureStopsTheRun ==
  /\ [][FatalFailure => started' = started]_vars
  /\ []((FatalFailure /\ pc \in {"done", "failed"} /\ pending = {}) => Len(errors) = 1)

\* C4: once updatePackageJson has called writeJson, the manifest written has
\* name '@<repoName>', repository and homepage 'https://github.com/<repoName>',
\* bugs.url 'https://github.com/<repoName>/issues' and version '0.0.1'.
C4_ManifestFields ==
  Made("writeJson", PACKAGE_JSON) =>
    /\ json[K_NAME] = JString(<<"@">> \o ctx.repoName)
    /\ json[K_REPOSITORY] = JString(GITHUB \o ctx.repoName)
    /\ json[K_HOMEPAGE] = JString(GITHUB \o ctx.repoName)
    /\ json[K_BUGS].kind = "object"
    /\ json[K_BUGS].o[K_URL] = GITHUB \o ctx.repoName \o ISSUES
    /\ json[K_VERSION] = JString(VERSION)

\* C5: the manifest written has no top-level key starting with '_', and every
\* key of the manifest read other than name, repository, homepage, bugs,
\* version and the '_' keys is in it with the value read; with no clone in
\* flight to write over it, that manifest is what package.json holds.
RewrittenKeys == { K_NAME, K_REPOSITORY, K_HOMEPAGE, K_BUGS, K_VERSION }

C5_UnderscoredGoneOthersKept ==
  Made("writeJson", PACKAGE_JSON) =>
    /\ \A k \in DOMAIN json : k[1] # "_"
    /\ \A k \in DOMAIN packageJson :
         (k \notin RewrittenKeys /\ k[1] # "_") => (k \in DOMAIN json /\ json[k] = packageJson[k])
    /\ ~args.templateUrl => disk[PACKAGE_JSON] = Json(json)

C5_Witness ==
  /\ Made("writeJson", PACKAGE_JSON)
  /\ packageJson = PkgFull
  /\ K_X_Y \in DOMAIN json /\ K_ID \notin DOMAIN json

\* C6: when 'Lib created at' is shown, no file the parameter manifest lists
\* holds an occurrence of a token assigned to it that the table resolves.
Occurs(str, token) == \E i \in 1..Len(str) : MatchAt(str, token, i)

TableTokens == { TOKEN_REPO, TOKEN_LIB_NAME, TOKEN_CORE_API }

C6_SubstitutedAtSuccess ==
  title =>
    \A q \in PathItemSet(ctx.paramsJson) \cap DOMAIN template :
      /\ q \in DOMAIN disk
      /\ \A t \in Range(TokensFor(ctx.paramsJson, q)) \cap TableTokens :
           ~Occurs(disk[q].text, t)

\* C7: for a file whose tokens have been applied, every token assigned to it
\* that the table does not resolve has its diagnostic, has left the content
\* as it was, and has failed nothing.
C7_UnresolvedTokenSkipped ==
  \A w \in pending :
    w.op = "writeFile" =>
      \A t \in Range(TokensFor(ctx.paramsJson, w.path)) \ TableTokens :
        /\ [token |-> t, path |-> w.path] \in diagnostics
        /\ \A text \in Contents(1) :
             ReplaceToken(text \o t, t, ctx.libName, ctx.repoName) = text \o t
        /\ errors = <<>>

\* C8: when the parameter manifest lists a path that is not in the folder,
\* cleanup never starts and 'Lib created at' is never shown.
ListsMissingPath ==
  /\ Started("Replace text")
  /\ \E q \in PathItemSet(ctx.paramsJson) : q \notin DOMAIN template \cup DOMAIN disk

C8_MissingPathStopsBeforeCleanup ==
  ListsMissingPath =>
    /\ ~Started("Cleanup")
    /\ ~title
    /\ \A c \in DOMAIN fsOps : c.op # "move"

\* C9: when template.parameters.json is not in the folder as parameter loading
\* runs, the task fails with the error naming the file and the folder, and the
\* run stops there: no manifest rewriting, token substitution or cleanup.
ParamsMissing == Message("template.parameters.json does not exist in", TemplateFolder)

C9_MissingParametersAborts ==
  /\ [][(pc = "readParameters" /\ PARAMS_FILE \notin DOMAIN disk /\ pc' # pc)
          => (pc' = "failed" /\ errors' = <<ParamsMissing>>)]_vars
  /\ []((pc = "failed" /\ errors = <<ParamsMissing>>)
          => /\ ~Started("Update package.json") /\ ~Started("Replace text")
             /\ ~Started("Cleanup") /\ ~title
             /\ \A c \in DOMAIN fsOps :
                  c.op \notin {"readJson", "writeJson", "readFile", "writeFile", "move"})
  /\ [][pc = "failed" => (pc' = "failed" /\ started' = started /\ fsOps' = fsOps)]_vars

C9_Witness ==
  /\ pc = "failed" /\ errors = <<ParamsMissing>>
  /\ started = SubSeq(TaskOrder(args.templateUrl), 1, 3)

\* C10: when package.json is not in the folder as updatePackageJson runs, the
\* task fails with the error naming <folder>/package.json, the manifest is
\* neither read nor written, and the run stops before token substitution and
\* cleanup.
PackageMissing == Message("does not exist in", Join(TemplateFolder, PACKAGE_JSON))

C10_MissingPackageJsonAborts ==
  /\ [][(pc = "updatePackageJson" /\ PACKAGE_JSON \notin DOMAIN disk /\ pc' # pc)
          => (pc' = "failed" /\ errors' = <<PackageMissing>>)]_vars
  /\ []((pc = "failed" /\ errors = <<PackageMissing>>)
          => /\ ~Made("readJson", PACKAGE_JSON) /\ ~Made("writeJson", PACKAGE_JSON)
             /\ json = <<>>
             /\ ~Started("Replace text") /\ ~Started("Cleanup") /\ ~title
             /\ \A c \in DOMAIN fsOps : c.op \notin {"readFile", "writeFile", "move"})
  /\ [][pc = "failed" => (pc' = "failed" /\ started' = started /\ fsOps' = fsOps)]_vars

C10_Witness ==
  /\ pc = "failed" /\ errors = <<PackageMissing>>
  /\ ctx.paramsJson = ParamsExample
  /\ Made("pathExists", PACKAGE_JSON)

\* C11: once the run reports success the folder holds neither
\* template.parameters.json nor types.d.ts, holds no gitignore.template and no
\* npmrc.template, and holds .gitignore / .npmrc where the template had the
\* corresponding *.template file, also when the manifest lists those files as
\* substitution targets.
C11_ScaffoldingGoneAtSuccess ==
  title =>
    /\ \A f \in filesToRemove : f \notin DOMAIN disk
    /\ \A r \in filesToRename :
         /\ r[1] \notin DOMAIN disk
         /\ r[1] \in DOMAIN template => r[2] \in DOMAIN disk

\* C12: cleanup never produces an error of any kind, neither a failed task nor
\* a rejection nothing handles, when a file it removes or renames is missing
\* from the template.
C12_MissingScaffoldingIsNoError ==
  /\ Started("Cleanup") => pc # "failed"
  /\ \A u \in unhandled :
       \A f \in filesToRemove \cup { r[1] : r \in filesToRename } :
         (u.what \in {"ENOENT move", "ENOENT remove"} /\ u.path = f) => f \in DOMAIN template

\* C13: in clone mode a failed clone is a fatal error of the run: the clone is
\* made once and not retried, the failure is the error the run ends with, and
\* no task starts after it.
CloneFailed == \E m \in unhandled \cup Range(errors) : m.what = "clone failed"

C13_CloneFailureIsFatal ==
  /\ [](Count(fsOps, Call("clone", <<>>)) <= 1)
  /\ [](CloneFailed => pc = "failed" /\ errors = << Message("clone failed", <<>>) >>)
  /\ [][CloneFailed => started' = started]_vars

\* C14: a run has one final outcome, success or one fatal error and never
\* both; once success is reported no filesystem operation is still in flight
\* and none fails afterwards.
C14_OneFinalOutcome ==
  /\ [](Len(errors) <= 1 /\ ~(title /\ errors # <<>>))
  /\ [](title => pending = {})
  /\ [][title => unhandled' = unhandled]_vars

\* C15: copyTemplate makes exactly one copy call.  With overwrite false an
\* entry that exists at a copied path makes the copy, and the run, fail with
\* the existing entries left as they were; with overwrite true the copy that
\* completes has replaced the existing files with the template's and kept the
\* rest.
Conflict == DOMAIN template \cap DOMAIN disk # {}

C15_CopyOnceAndFailOnExisting ==
  [][pc = "acquire"
       => /\ Count(fsOps', Call("copy", <<>>)) = Count(fsOps, Call("copy", <<>>)) + 1
          /\ \A q \in DOMAIN disk : q \in DOMAIN disk'
          /\ (~args.overwrite /\ Conflict)
               => /\ pc' = "failed"
                  /\ errors' = << Message("already exists", TemplateFolder) >>
                     \/ errors' = << Message("copy failed", TemplateFolder) >>
                  /\ \A q \in DOMAIN disk : disk'[q] = disk[q]
          /\ (~args.overwrite /\ ~Conflict /\ pc' # "failed")
               => disk' = template @@ disk
          /\ (args.overwrite /\ pc' # "failed")
               => /\ \A q \in DOMAIN template : disk'[q] = template[q]
                  /\ \A q \in DOMAIN disk \ DOMAIN template : disk'[q] = disk[q]]_vars

C15_Witness ==
  /\ pc = "failed" /\ ~args.overwrite
  /\ errors = << Message("already exists", TemplateFolder) >>
  /\ disk[A_TXT] = Previous[A_TXT]
  /\ B_TXT \notin DOMAIN disk

\* C16: the 'Remove .git folder' task makes one removal, of <folder>/.git, and
\* touches nothing else in the folder.  When .git is absent the task succeeds
\* and the run goes on; when the removal fails the run ends with that error and
\* no later task starts.
RemoveFailed == Message("remove failed", Join(TemplateFolder, DOT_GIT))

C16_OnlyDotGitRemoved ==
  /\ [][pc = "removeDotGit" /\ pc' # pc
          => /\ \A c \in DOMAIN fsOps' :
                  Count(fsOps', c) = Count(fsOps, c) + (IF c = Call("remove", DOT_GIT) THEN 1 ELSE 0)
             /\ \/ /\ pc' = "readParameters"
                   /\ disk' = [q \in DOMAIN disk \ {DOT_GIT} |-> disk[q]]
                   /\ errors' = errors
                \/ /\ pc' = "failed"
                   /\ DOT_GIT \in DOMAIN disk
                   /\ disk' = disk
                   /\ errors' = << RemoveFailed >>]_vars
  /\ [][errors = << RemoveFailed >> => started' = started]_vars

C16_Witness ==
  /\ pc = "failed" /\ errors = << RemoveFailed >>
  /\ started = << "Cloning template", "Remove .git folder" >>
  /\ DOT_GIT \in DOMAIN disk

\* C17: the context holds libName, the library-name argument with its first
\* character upper-cased and the rest unchanged, and repoName, the repo
\* argument without one leading '@'; '@r' and 'r' give the same repoName and
\* the same manifest when r has no leading '@'; the repoName in the context
\* starts with '@' only when the argument starts with '@@'.
Lower == { "f", "o", "r", "x" }
OneAtLess(name) == IF name[1] = "@" THEN Tail(name) ELSE name

ContextNames ==
  /\ Len(ctx.libName) = Len(args.libName)
  /\ \A i \in 2..Len(args.libName) : ctx.libName[i] = args.libName[i]
  /\ ctx.libName[1] \notin Lower
  /\ ToUpperCase(args.libName[1]) = ctx.libName[1]
  /\ ctx.repoName = OneAtLess(args.repoName)
  /\ Made("writeJson", PACKAGE_JSON) => json[K_NAME] = JString(<<"@">> \o OneAtLess(args.repoName))

C17_ContextNames ==
  /\ pc # "run" =>
       /\ ContextNames
       /\ StartsWith(ctx.repoName, <<"@">>) => StartsWith(args.repoName, <<"@", "@">>)
  /\ \A r \in NameRepoNames \cup RepoNames :
       ~StartsWith(r, <<"@">>) =>
         /\ StripAt(<<"@">> \o r) = StripAt(r)
         /\ UpdatedJson(PkgFull, StripAt(<<"@">> \o r)) = UpdatedJson(PkgFull, StripAt(r))

C17_Witness ==
  /\ args.repoName = <<"@", "@", "r">> /\ ctx.repoName = <<"@", "r">>
  /\ args.libName = <<"x">> /\ ctx.libName = <<"X">>
  /\ Made("writeJson", PACKAGE_JSON)

\* C17 as stated: the repoName in the context never starts with '@'
C17_RepoNameNeverStartsWithAt ==
  pc # "run" => ContextNames /\ ~StartsWith(ctx.repoName, <<"@">>)

\* C18: token substitution reads every distinct path of the parameter manifest
\* exactly once and writes it at most once in a run, however many tokens list
\* the path and however often a token lists it; it reads and writes no other
\* path.
C18_ReadOnceWrittenAtMostOnce ==
  /\ \A q \in PathItemSet(ctx.paramsJson) :
       /\ Count(fsOps, Call("readFile", q)) = IF Started("Replace text") THEN 1 ELSE 0
       /\ Count(fsOps, Call("writeFile", q)) <= 1
  /\ \A c \in DOMAIN fsOps :
       c.op \in {"readFile", "writeFile"} => c.path \in PathItemSet(ctx.paramsJson)

C18_Witness ==
  /\ ctx.paramsJson = ParamsMixed
  /\ Len(TokensFor(ParamsMixed, A_TXT)) > 1
  /\ Len(SelectSeq(Spread(ParamsMixed), LAMBDA q : q = A_TXT)) > 2
  /\ Count(fsOps, Call("readFile", A_TXT)) = 1
  /\ Count(fsOps, Call("writeFile", A_TXT)) = 1
  /\ pending = {} /\ title

\* C19: token substitution writes a file back only if at least one token
\* applies to it: no write is made on a file all of whose assigned tokens are
\* unresolved.
Unresolved(token) == ~Truthy(toFrom(token, ctx.libName, ctx.repoName))

C19_NoWriteWithoutResolvedToken ==
  \A q \in PathItemSet(ctx.paramsJson) :
    (\A t \in Range(TokensFor(ctx.paramsJson, q)) : Unresolved(t))
      => Count(fsOps, Call("writeFile", q)) = 0

\* C20: from the read of a substituted file to the end of its write, no other
\* operation of the run writes, removes or moves that file.
InUnit(calls, path) ==
  \E c \in calls : c.op \in {"readFile", "writeFile"} /\ c.path = path

Holds(tree, path) == IF path \in DOMAIN tree THEN tree[path] ELSE Undefined

C20_SubstitutionUnitUndisturbed ==
  [][\A q \in PathItemSet(ctx.paramsJson) :
       (InUnit(pending, q) /\ InUnit(pending', q)) => Holds(disk', q) = Holds(disk, q)]_vars

\* C21: within one file the tokens are applied one after another in the key
\* order of the parameter manifest, each as a replace-all on the content the
\* previous one produced, so text a replacement inserted is matched by a later
\* token; what is written is this left-to-right fold over the content read.
RECURSIVE LeftFold(_, _, _)
LeftFold(content, tokens, n) ==
  IF n = 0 THEN content
  ELSE ReplaceToken(LeftFold(content, tokens, n - 1), tokens[n], ctx.libName, ctx.repoName)

C21_TokensFoldLeftToRight ==
  /\ [][\A w \in pending' \ pending :
          w.op = "writeFile" =>
            LET tokens == TokensFor(ctx.paramsJson, w.path)
            IN  w.data = LeftFold(disk[w.path].text, tokens, Len(tokens))]_vars
  /\ [][\A w \in pending \ pending' :
          (w.op = "writeFile" /\ ~exited') => disk'[w.path] = Text(w.data)]_vars

\* '{{LIB_NAME}}x{{REPO}}' with libName '{{REPO}}': the text the first token
\* inserted is replaced by the second
C21_Witness ==
  /\ args.libName = TOKEN_REPO /\ ctx.repoName = <<"r">>
  /\ ctx.paramsJson = ParamsExample
  /\ template[A_TXT] = Text(TOKEN_LIB_NAME \o <<"x">> \o TOKEN_REPO)
  /\ A_TXT \in DOMAIN disk /\ disk[A_TXT] = Text(<<"r", "x", "r">>)

\* C22: a token that contains '{' or '}' is matched as literal text:
\* substituting '{{LIB_NAME}}' or '{{REPO}}' replaces exactly the occurrences
\* of that character sequence in the file, nothing else, and inserts the
\* resolved value verbatim.
RECURSIVE Verbatim(_, _, _, _)
Verbatim(str, token, value, i) ==
  IF i > Len(str) THEN <<>>
  ELSE IF MatchAt(str, token, i)
       THEN value \o Verbatim(str, token, value, i + Len(token))
       ELSE <<str[i]>> \o Verbatim(str, token, value, i + 1)

BracedTokens == { TOKEN_REPO, TOKEN_LIB_NAME }

C22_BracedTokenLiteralAndVerbatim ==
  \A t \in BracedTokens :
    LET to == toFrom(t, ctx.libName, ctx.repoName)
    IN  (pc # "run" /\ Truthy(to)) =>
          \A q \in DOMAIN template :
            template[q].kind = "text" =>
              ReplaceToken(template[q].text, t, ctx.libName, ctx.repoName)
                = Verbatim(template[q].text, t, to.s, 1)

\* C23: exactly three tokens resolve, '{{REPO}}' to repoName, '{{LIB_NAME}}' to
\* libName and 'LibNameCoreAPI' to libName; for every other key of the
\* parameter manifest no replacement is made in any file and a diagnostic is
\* emitted.
ManifestTokens == { ctx.paramsJson[i].token : i \in 1..Len(ctx.paramsJson) }

C23_OnlyTheThreeTokensResolve ==
  pc # "run" =>
    /\ toFrom(TOKEN_REPO, ctx.libName, ctx.repoName) = StringValue(ctx.repoName)
    /\ toFrom(TOKEN_LIB_NAME, ctx.libName, ctx.repoName) = StringValue(ctx.libName)
    /\ toFrom(TOKEN_CORE_API, ctx.libName, ctx.repoName) = StringValue(ctx.libName)
    /\ \A t \in ManifestTokens \ TableTokens :
         /\ toFrom(t, ctx.libName, ctx.repoName) = Undefined
         /\ \A q \in DOMAIN template :
              template[q].kind = "text" =>
                ReplaceToken(template[q].text, t, ctx.libName, ctx.repoName) = template[q].text
         /\ \A c \in DOMAIN fsOps :
              (c.op = "writeFile" /\ Includes(TokensFor(ctx.paramsJson, c.path), t))
                => [token |-> t, path |-> c.path] \in diagnostics

\* C24: whatever the manifest's 'bugs' field held (nothing, an object with
\* other keys, a string), updatePackageJson completes without error and the
\* manifest it writes has 'bugs' as an object whose 'url' is the issues URL
\* derived from repoName, with the other keys of a prior 'bugs' object kept.
IssuesUrls == { GITHUB \o at \o ctx.repoName \o ISSUES : at \in { <<>>, <<"@">> } }

C24_BugsBecomesAnObjectWithUrl ==
  [][(pc = "updatePackageJson" /\ PACKAGE_JSON \in DOMAIN disk
        /\ disk[PACKAGE_JSON].kind = "json")
       => LET prior == disk[PACKAGE_JSON].json
          IN  /\ pc' = "writeJson"
              /\ errors' = errors
              /\ json'[K_BUGS].kind = "object"
              /\ json'[K_BUGS].o[K_URL] \in IssuesUrls
              /\ (K_BUGS \in DOMAIN prior /\ prior[K_BUGS].kind = "object")
                   => \A k \in DOMAIN prior[K_BUGS].o \ {K_URL} :
                        /\ k \in DOMAIN json'[K_BUGS].o
                        /\ json'[K_BUGS].o[k] = prior[K_BUGS].o[k]]_vars

\* C25: one acquisition method runs per run: with a template URL the clone is
\* made (depth 1, single branch, into the destination folder) and the bundled
\* template is never copied; without one the bundled template is copied and no
\* clone is made.
Copies == Count(fsOps, Call("copy", <<>>))
Clones == Count(fsOps, Call("clone", <<>>))

C25_OneAcquisitionMethod ==
  /\ Copies + Clones = IF started = <<>> THEN 0 ELSE 1
  /\ args.templateUrl => Copies = 0
  /\ ~args.templateUrl => Clones = 0
  /\ \A c \in DOMAIN fsOps : c.op \in {"copy", "clone"} => c.path = <<>>
  /\ \A c \in pending :
       c.op = "clone" => c.path = <<>> /\ c.data = << "singleBranch: true", "depth: 1" >>

C25_Witness ==
  /\ args.templateUrl /\ Clones = 1 /\ Copies = 0
  /\ pc = "done" /\ title /\ pending = {}
  /\ \A q \in {A_TXT, B_TXT} : q \in DOMAIN disk

\* C26: token substitution changes no file other than those the parameter
\* manifest lists: a step of the substitution leaves every other file of the
\* folder with the content it had, and creates or deletes no file.
SubstitutionStep ==
  \/ pc = "replaceText" /\ pc' = "cleanup"
  \/ \E c \in pending \ pending' : c.op \in {"readFile", "writeFile"}

C26_SubstitutionTouchesListedFilesOnly ==
  [][SubstitutionStep
       => /\ \A q \in (DOMAIN disk \cup DOMAIN disk') \ PathItemSet(ctx.paramsJson) :
               Holds(disk', q) = Holds(disk, q)
          /\ DOMAIN disk' = DOMAIN disk]_vars

\* C27: the folder the overwrite precondition checks is the folder every stage
\* works on and the one reported: outputDir, or the working directory, joined
\* with the library-name argument as typed, not capitalised; no stage reads or
\* writes outside that folder, the read of the bundled template apart.
TypedFolder == (IF args.outputDir = <<>> THEN Cwd ELSE args.outputDir) \o <<"/">> \o args.libName

C27_OneFolderThroughout ==
  /\ TemplateFolder = TypedFolder
  /\ \A i \in 1..Len(errors) : StartsWith(errors[i].path, TypedFolder)
  /\ \A c \in DOMAIN fsOps : ~StartsWith(c.path, <<"/">>)
  /\ \A c \in pending : ~StartsWith(c.path, <<"/">>)

==============================================================================
